---- MODULE Spec2Model ----
(***************************************************************************)
(* A model of the command execution engine of rusty_bash:                  *)
(*   - Command::exec, the fork / child / parent protocol of                *)
(*     src/src/elements/command.rs, run by one shell process over a        *)
(*     sequence of command nodes, with the forked children interleaving;   *)
(*   - parse, the dispatcher over the eight variant parsers.               *)
(* The trait's default methods are modelled from command.rs.  The variant  *)
(* implementations (elements/command/simple.rs, paren.rs, brace.rs, ...)   *)
(* and their parsers live in other files of the crate; their overrides are *)
(* modelled from the specification and are marked as such where they are   *)
(* defined.                                                                *)
(***************************************************************************)
EXTENDS Integers, Sequences, FiniteSets, TLC

\* ------------------------------------------------------------------ bounds

\* Number of command nodes the caller hands to exec, left to right.
NumNodes == 2

\* Largest value the variants' exec_elems stores in the exit-status variable "?".
MaxStatus == 2

\* Largest number of tokens in a line handed to parse.
MaxLen == 3

\* Largest number of characters in the line editor's buffer.
MaxChars == 2

\* Largest number of entries of core.history when read_line_terminal is called.
MaxHist == 1

\* Largest number of Tab keys in a row.
MaxTabs == 2

\* How far below 0 the Up key may take hist_ptr (into the history file).
MaxFile == 2

\* The width of the terminal, in columns.
TermWidth == 2

\* The width of the prompt, left_shift.
LeftShift == 1

\* ------------------------------------------------------- exec: the data

Nodes == 1..NumNodes

StatusValues == 0..MaxStatus

\* Option<Pid>::None, as get_pid returns it before a fork.
NoPid == 0

\* The process id of the shell (the calling process); it leads its own group.
ShellPid == 1

\* "default": a node that overrides none of the trait's default methods.
\* "plain":   a variant outside any pipe chain (a lone simple command).
\* "piped":   a variant that takes part in a pipe chain.
Kinds == {"default", "plain", "piped"}

\* The child's steps, in the order of the child branch of exec.
ChildOrder == <<"set_signals", "set_group", "set_child_io", "exec_elems", "close", "exit">>

\* The child's steps when set_child_io returns an error.
ChildErrOrder == <<"set_signals", "set_group", "set_child_io_err", "eprintln", "exit1">>

VARIABLES
    kind,        \* kind[n]: which methods node n overrides, fixed by its parser
    cur,         \* the node the caller hands to exec next
    shell,       \* "running" | "forked" (inside exec, parent branch) | "aborted"
    shellStatus, \* conf.vars["?"] in the shell's address space
    pid,         \* pid[n]: the node's pid field in the shell's address space
    returned,    \* returned[n]: exec(n) has returned in the calling process
    shellLog,    \* the calls the shell itself has made inside exec: <<method, node>>
    nextPid,     \* the process id the next fork hands out
    proc         \* proc[n]: the process forked for node n

execVars == <<kind, cur, shell, shellStatus, pid, returned, shellLog, nextPid, proc>>

\* ------------------------------------------------------ parse: the data

VARIABLES
    input,       \* the line in the Feeder, as a sequence of tokens
    start,       \* the cursor when parse was called
    cursor,      \* the cursor: number of tokens of the line consumed so far
    parsePc,     \* "if" ... "simple": the parser tried next; "done": parse returned
    result,      \* the variant parse returned, "none" for None
    args,        \* the argument list of the node parse returned
    tried        \* the variant parsers invoked so far: <<variant, matched>>

parseVars == <<input, start, cursor, parsePc, result, args, tried>>

\* ------------------------------------------------------- main: the data

VARIABLES
    mainPc       \* where main's loop is: "idle" (main is not running), "prompt",
                 \* "read", "parse" (top_level_element is at work),
                 \* "panic_read", "panic_parse" (main has panicked)

mainVars == <<mainPc>>

\* ------------------------------------------------ line editor: the data

VARIABLES
    history,     \* core.history
    histAtCall,  \* core.history as it was when read_line_terminal was called
    edPc,        \* "idle" | "keys" (in the loop over the keys) | "returned" | "panicked"
    writer,      \* the Writer of the call: chars, ch_ptr, hist_ptr, fold_points
    tab_num,     \* the local tab_num of read_line_terminal
    tabArg,      \* what the last key passed to tab_completion, 0 if it called none
    lastWasTab,  \* the last key of the call was a Tab
    ret          \* what read_line_terminal returned

editVars == <<history, histAtCall, edPc, writer, tab_num, tabArg, lastWasTab, ret>>

vars == <<execVars, parseVars, mainVars, editVars>>

\* The exec protocol leaves the parser's, the main loop's and the editor's state alone.
ExecFrame == UNCHANGED <<parseVars, mainVars, editVars>>

\* A node's process before it is forked.
NoProc ==
    [pc |-> "none", pid |-> NoPid, pgid |-> NoPid, joinPgid |-> NoPid,
     sigDefault |-> FALSE, status |-> 0, trace |-> <<>>,
     how |-> "none", code |-> 0]

\* ------------------------------------------------- the trait's methods

\* fn no_connection(&self) -> bool { true }
no_connection_default == TRUE

\* The variants' override: false for a node that takes part in a pipe chain.
no_connection_variant(n) == kind[n] # "piped"

no_connection(n) ==
    IF kind[n] = "default" THEN no_connection_default ELSE no_connection_variant(n)

\* fn set_child_io(&mut self, _conf) -> Result<(), String> {Ok(())}
set_child_io_default == {"Ok"}

\* The variants' override: the redirections succeed, or one of them fails.
set_child_io_variant == {"Ok", "Err"}

set_child_io(n) ==
    IF kind[n] = "default" THEN set_child_io_default ELSE set_child_io_variant

\* fn exec_elems(&mut self, _conf) {}: the exit status stays as it is.
exec_elems_default(st) == {st}

\* The variants' override: the body leaves some exit status in "?".
exec_elems_variant(st) == StatusValues

exec_elems(n, st) ==
    IF kind[n] = "default" THEN exec_elems_default(st) ELSE exec_elems_variant(st)

\* fn set_pid(&mut self, _pid: Pid) {}: the pid field stays as it is.
set_pid_default(old, p) == old

\* The variants' override: the pid field holds the child's process id.
set_pid_variant(old, p) == p

set_pid(n, p) ==
    IF kind[n] = "default" THEN set_pid_default(pid[n], p) ELSE set_pid_variant(pid[n], p)

\* fn get_pid(&self) -> Option<Pid>: the variants return their pid field.
get_pid(n) == pid[n]

\* set_group_leader: the pipeline wiring marks the first member of the chain.
group_leader(n) ==
    /\ kind[n] = "piped"
    /\ \A m \in Nodes : m < n => kind[m] # "piped"

Leader == CHOOSE n \in Nodes : group_leader(n)

\* The process groups that exist: the shell's, and those of the forked processes.
GroupExists(g) ==
    \/ g = ShellPid
    \/ \E m \in Nodes : proc[m].pc # "none" /\ proc[m].pgid = g

\* set_group in the child: the leader makes its own group, setpgid(pid, pid);
\* a later member asks to join the leader's, setpgid(pid, leader), which the
\* kernel grants only if that group exists; the result is ignored.
set_group(n) ==
    IF group_leader(n) THEN proc[n].pid
    ELSE IF GroupExists(proc[n].joinPgid) THEN proc[n].joinPgid
    ELSE proc[n].pgid

\* ---------------------------------------------------------- exec: Init

ExecInit ==
    /\ kind \in [Nodes -> Kinds]
    /\ cur = 1
    /\ shell = "running"
    /\ shellStatus = 0
    /\ pid = [n \in Nodes |-> NoPid]
    /\ returned = [n \in Nodes |-> FALSE]
    /\ shellLog = <<>>
    /\ nextPid = ShellPid + 1
    /\ proc = [n \in Nodes |-> NoProc]

\* ------------------------------------------------ exec: the caller's side

\* A slip: the early return of line 63 is missing, so exec goes on to fork.
ExecInProcess_NoReturn ==
    /\ shell = "running"
    /\ cur \in Nodes
    /\ no_connection(cur)
    /\ \E st \in exec_elems(cur, shellStatus) : shellStatus' = st
    /\ shellLog' = shellLog \o << <<"exec_elems", cur>>, <<"fork", cur>> >>
    /\ proc' = [proc EXCEPT ![cur] =
                    [NoProc EXCEPT !.pc = "set_signals",
                                   !.pid = nextPid,
                                   !.pgid = ShellPid,
                                   !.status = shellStatus']]
    /\ nextPid' = nextPid + 1
    /\ shell' = "forked"
    /\ UNCHANGED <<kind, cur, pid, returned>>
    /\ ExecFrame

\* exec, lines 61-64: no_connection() is true; the body runs in the calling
\* process and exec returns.
ExecInProcess ==
    /\ shell = "running"
    /\ cur \in Nodes
    /\ no_connection(cur)
    /\ \E st \in exec_elems(cur, shellStatus) : shellStatus' = st
    /\ shellLog' = Append(shellLog, <<"exec_elems", cur>>)
    /\ returned' = [returned EXCEPT ![cur] = TRUE]
    /\ cur' = cur + 1
    /\ UNCHANGED <<kind, shell, pid, nextPid, proc>>
    /\ ExecFrame

\* exec, line 66 with Ok(..): fork succeeds; the child starts with a copy of the
\* shell's memory, in the shell's process group, with the shell's signal
\* dispositions; the parent is in its branch of the match.
ForkOk ==
    /\ shell = "running"
    /\ cur \in Nodes
    /\ ~no_connection(cur)
    /\ proc' = [proc EXCEPT ![cur] =
                    [NoProc EXCEPT !.pc = "set_signals",
                                   !.pid = nextPid,
                                   !.pgid = ShellPid,
                                   !.joinPgid = get_pid(Leader),
                                   !.status = shellStatus]]
    /\ nextPid' = nextPid + 1
    /\ shell' = "forked"
    /\ shellLog' = Append(shellLog, <<"fork", cur>>)
    /\ UNCHANGED <<kind, cur, shellStatus, pid, returned>>
    /\ ExecFrame

\* A slip: when fork fails exec falls back to running the body in-process.
ForkErr_Degraded ==
    /\ shell = "running"
    /\ cur \in Nodes
    /\ ~no_connection(cur)
    /\ shell' = "aborted"
    /\ \E st \in exec_elems(cur, shellStatus) : shellStatus' = st
    /\ shellLog' = shellLog \o << <<"fork", cur>>, <<"exec_elems", cur>> >>
    /\ UNCHANGED <<kind, cur, pid, returned, nextPid, proc>>
    /\ ExecFrame

\* exec, line 86: fork fails; the shell panics.
ForkErr ==
    /\ shell = "running"
    /\ cur \in Nodes
    /\ ~no_connection(cur)
    /\ shell' = "aborted"
    /\ shellLog' = Append(shellLog, <<"fork", cur>>)
    /\ UNCHANGED <<kind, cur, shellStatus, pid, returned, nextPid, proc>>
    /\ ExecFrame

\* A slip: the parent branch returns without recording the child's pid.
ParentBranch_NoSetPid ==
    /\ shell = "forked"
    /\ returned' = [returned EXCEPT ![cur] = TRUE]
    /\ cur' = cur + 1
    /\ shell' = "running"
    /\ UNCHANGED <<kind, shellStatus, pid, shellLog, nextPid, proc>>
    /\ ExecFrame

\* A slip: the parent branch waits for the child before it returns.
ParentBranch_Waits ==
    /\ shell = "forked"
    /\ proc[cur].pc \in {"exited", "panicked"}
    /\ pid' = [pid EXCEPT ![cur] = set_pid(cur, proc[cur].pid)]
    /\ returned' = [returned EXCEPT ![cur] = TRUE]
    /\ cur' = cur + 1
    /\ shell' = "running"
    /\ shellLog' = Append(shellLog, <<"set_pid", cur>>)
    /\ UNCHANGED <<kind, shellStatus, nextPid, proc>>
    /\ ExecFrame

\* exec, lines 82-85: the parent records the child's pid and returns.
ParentBranch ==
    /\ shell = "forked"
    /\ pid' = [pid EXCEPT ![cur] = set_pid(cur, proc[cur].pid)]
    /\ returned' = [returned EXCEPT ![cur] = TRUE]
    /\ cur' = cur + 1
    /\ shell' = "running"
    /\ shellLog' = Append(shellLog, <<"set_pid", cur>>)
    /\ UNCHANGED <<kind, shellStatus, nextPid, proc>>
    /\ ExecFrame

\* ------------------------------------------------- exec: the child's side

\* A child runs in its own address space: nothing of the shell's changes.
ShellUnchanged ==
    /\ UNCHANGED <<kind, cur, shell, shellStatus, pid, returned, shellLog, nextPid>>
    /\ ExecFrame

\* A slip: the child goes from the signal reset straight to the descriptors.
ChildSetSignals_SkipGroup(n) ==
    /\ proc[n].pc = "set_signals"
    /\ proc' = [proc EXCEPT ![n].pc = "set_child_io",
                            ![n].sigDefault = TRUE,
                            ![n].trace = Append(@, "set_signals")]
    /\ ShellUnchanged

\* line 68: proc::set_signals() restores the default dispositions.
ChildSetSignals(n) ==
    /\ proc[n].pc = "set_signals"
    /\ proc' = [proc EXCEPT ![n].pc = "set_group",
                            ![n].sigDefault = TRUE,
                            ![n].trace = Append(@, "set_signals")]
    /\ ShellUnchanged

\* line 69: self.set_group().
ChildSetGroup(n) ==
    /\ proc[n].pc = "set_group"
    /\ proc' = [proc EXCEPT ![n].pc = "set_child_io",
                            ![n].pgid = set_group(n),
                            ![n].trace = Append(@, "set_group")]
    /\ ShellUnchanged

\* line 74: self.set_child_io(conf) returns Ok.
ChildSetIoOk(n) ==
    /\ proc[n].pc = "set_child_io"
    /\ "Ok" \in set_child_io(n)
    /\ proc' = [proc EXCEPT ![n].pc = "exec_elems",
                            ![n].trace = Append(@, "set_child_io")]
    /\ ShellUnchanged

\* line 74: self.set_child_io(conf) returns Err(s).
ChildSetIoErr(n) ==
    /\ proc[n].pc = "set_child_io"
    /\ "Err" \in set_child_io(n)
    /\ proc' = [proc EXCEPT ![n].pc = "eprintln",
                            ![n].trace = Append(@, "set_child_io_err")]
    /\ ShellUnchanged

\* A slip: the error is reported but exit(1) is missing, so the body runs.
ChildReport_NoExit(n) ==
    /\ proc[n].pc = "eprintln"
    /\ proc' = [proc EXCEPT ![n].pc = "exec_elems",
                            ![n].trace = Append(@, "eprintln")]
    /\ ShellUnchanged

\* line 75: eprintln!("{}", s).
ChildReport(n) ==
    /\ proc[n].pc = "eprintln"
    /\ proc' = [proc EXCEPT ![n].pc = "exit1",
                            ![n].trace = Append(@, "eprintln")]
    /\ ShellUnchanged

\* line 76: exit(1).
ChildExit1(n) ==
    /\ proc[n].pc = "exit1"
    /\ proc' = [proc EXCEPT ![n].pc = "exited",
                            ![n].how = "exit",
                            ![n].code = 1,
                            ![n].trace = Append(@, "exit1")]
    /\ ShellUnchanged

\* line 78: self.exec_elems(conf), on the child's copy of conf.
ChildExecElems(n) ==
    /\ proc[n].pc = "exec_elems"
    /\ \E st \in exec_elems(n, proc[n].status) :
           proc' = [proc EXCEPT ![n].pc = "close",
                                ![n].status = st,
                                ![n].trace = Append(@, "exec_elems")]
    /\ ShellUnchanged

\* line 79: close(1) returns Ok.
ChildCloseOk(n) ==
    /\ proc[n].pc = "close"
    /\ proc' = [proc EXCEPT ![n].pc = "exit",
                            ![n].trace = Append(@, "close")]
    /\ ShellUnchanged

\* line 79: close(1) returns Err; expect panics and the child dies of the panic.
ChildCloseErr(n) ==
    /\ proc[n].pc = "close"
    /\ proc' = [proc EXCEPT ![n].pc = "panicked",
                            ![n].how = "panic",
                            ![n].trace = Append(@, "close_err")]
    /\ ShellUnchanged

\* A slip: the child exits with 0 whatever the exit-status variable holds.
ChildExit_Zero(n) ==
    /\ proc[n].pc = "exit"
    /\ proc' = [proc EXCEPT ![n].pc = "exited",
                            ![n].how = "exit",
                            ![n].code = 0,
                            ![n].trace = Append(@, "exit")]
    /\ ShellUnchanged

\* line 80: exit(conf.vars["?"].parse::<i32>().unwrap()).
ChildExit(n) ==
    /\ proc[n].pc = "exit"
    /\ proc' = [proc EXCEPT ![n].pc = "exited",
                            ![n].how = "exit",
                            ![n].code = proc[n].status,
                            ![n].trace = Append(@, "exit")]
    /\ ShellUnchanged

ChildNext ==
    \E n \in Nodes :
        \/ ChildSetSignals(n)
        \/ ChildSetGroup(n)
        \/ ChildSetIoOk(n)
        \/ ChildSetIoErr(n)
        \/ ChildReport(n)
        \/ ChildExit1(n)
        \/ ChildExecElems(n)
        \/ ChildCloseOk(n)
        \/ ChildCloseErr(n)
        \/ ChildExit(n)

ExecNext ==
    \/ ExecInProcess
    \/ ForkOk
    \/ ForkErr
    \/ ParentBranch
    \/ ChildNext

\* ------------------------------------------------- parse: the parsers

\* The tokens of a line: the keywords that open and close a compound command,
\* the grouping operators, "fn" for the header of a function definition
\* (a name followed by a pair of parentheses), and "w" for any other word.
Tok ==
    {"if", "fi", "while", "done", "case", "esac",
     "(", ")", "((", "))", "{", "}", "fn", "w", "echo"}

\* The words that are no keywords: "echo", and "w" for any other word.
PlainWords == {"w", "echo"}

\* The tokens a bare word sequence is made of: keywords are words to the lexer.
Words == {"if", "fi", "while", "done", "case", "esac"} \cup PlainWords

Lines == UNION {[1..k -> Tok] : k \in 0..MaxLen}

Min(S) == CHOOSE x \in S : \A y \in S : x <= y

NoMatch(pos) == [ok |-> FALSE, pos |-> pos, args |-> <<>>]

Match(pos) == [ok |-> TRUE, pos |-> pos, args |-> <<>>]

\* A variant parser that finds no match puts the cursor back where it was
\* when the parser was called, whatever it has read ahead.
rewind(backup, reached) == backup

\* A construct that runs from an opening token to its closing token.
compound_parse(open, close, in, pos) ==
    IF pos < Len(in) /\ in[pos + 1] = open
    THEN LET closers == {j \in (pos + 2)..Len(in) : in[j] = close}
         IN  IF closers # {}
             THEN Match(Min(closers))
             ELSE NoMatch(rewind(pos, Len(in)))
    ELSE NoMatch(rewind(pos, pos))

\* CommandIf::parse
if_parse(in, pos) == compound_parse("if", "fi", in, pos)

\* CommandWhile::parse
while_parse(in, pos) == compound_parse("while", "done", in, pos)

\* CommandCase::parse
case_parse(in, pos) == compound_parse("case", "esac", in, pos)

\* CommandParen::parse
paren_parse(in, pos) == compound_parse("(", ")", in, pos)

\* CommandDoubleParen::parse
double_paren_parse(in, pos) == compound_parse("((", "))", in, pos)

\* CommandBrace::parse
brace_parse(in, pos) == compound_parse("{", "}", in, pos)

\* FunctionDefinition::parse: the header, then the body, a brace group.
function_parse(in, pos) ==
    IF pos < Len(in) /\ in[pos + 1] = "fn"
    THEN LET body == brace_parse(in, pos + 1)
         IN  IF body.ok THEN body ELSE NoMatch(rewind(pos, pos + 1))
    ELSE NoMatch(rewind(pos, pos))

\* The words SimpleCommand::parse collects, one after the other, from pos on.
RECURSIVE collect_words(_, _)
collect_words(in, pos) ==
    IF pos < Len(in) /\ in[pos + 1] \in Words
    THEN <<in[pos + 1]>> \o collect_words(in, pos + 1)
    ELSE <<>>

\* SimpleCommand::parse: the catch-all, a non-empty run of words; the words
\* are the arguments of the command.
simple_parse(in, pos) ==
    IF pos < Len(in) /\ in[pos + 1] \in Words
    THEN LET stops == {j \in (pos + 1)..Len(in) : in[j] \notin Words}
         IN  [Match(IF stops = {} THEN Len(in) ELSE Min(stops) - 1)
                 EXCEPT !.args = collect_words(in, pos)]
    ELSE NoMatch(rewind(pos, pos))

\* ---------------------------------------------- parse: the dispatcher

\* The order of the if / else-if chain of parse, lines 104-111.
ParserOrder ==
    <<"if", "while", "case", "paren", "double_paren", "brace", "function", "simple">>

IndexOf(name) == CHOOSE i \in 1..Len(ParserOrder) : ParserOrder[i] = name

\* A slip: the catch-all simple-command parser is tried right after the
\* keyword-led ones, before the grouping constructs and the function definition.
NextParser_SimpleEarly(name) ==
    CASE name = "case" -> "simple"
      [] name = "simple" -> "paren"
      [] name = "function" -> "done"
      [] OTHER -> ParserOrder[IndexOf(name) + 1]

\* A slip: the last arm of the chain, the simple-command parser, is missing.
NextParser_NoSimple(name) ==
    IF IndexOf(name) < Len(ParserOrder) - 1 THEN ParserOrder[IndexOf(name) + 1] ELSE "done"

\* The else-branch taken when the parser `name` returns None: the next parser of
\* the chain, or line 112, where parse returns None.
NextParser(name) ==
    IF IndexOf(name) < Len(ParserOrder) THEN ParserOrder[IndexOf(name) + 1] ELSE "done"

\* A slip: after a parser that found no match the dispatcher steps over one
\* token of the line before it tries the next parser.
Try_SkipsOnFail(name, r) ==
    /\ parsePc = name
    /\ cursor' = IF r.ok \/ r.pos >= Len(input) THEN r.pos ELSE r.pos + 1
    /\ tried' = Append(tried, <<name, r.ok>>)
    /\ result' = IF r.ok THEN name ELSE result
    /\ args' = IF r.ok THEN r.args ELSE args
    /\ parsePc' = IF r.ok THEN "done" ELSE NextParser(name)
    /\ UNCHANGED <<input, start>>
    /\ UNCHANGED <<execVars, mainVars, editVars>>

\* One arm of the chain: the parser is called on the Feeder as the earlier ones
\* left it; Some(a) is returned at once, None falls through to the next arm.
Try(name, r) ==
    /\ parsePc = name
    /\ cursor' = r.pos
    /\ tried' = Append(tried, <<name, r.ok>>)
    /\ result' = IF r.ok THEN name ELSE result
    /\ args' = IF r.ok THEN r.args ELSE args
    /\ parsePc' = IF r.ok THEN "done" ELSE NextParser(name)
    /\ UNCHANGED <<input, start>>
    /\ UNCHANGED <<execVars, mainVars, editVars>>

TryIf == Try("if", if_parse(input, cursor))

TryWhile == Try("while", while_parse(input, cursor))

TryCase == Try("case", case_parse(input, cursor))

TryParen == Try("paren", paren_parse(input, cursor))

TryDoubleParen == Try("double_paren", double_paren_parse(input, cursor))

TryBrace == Try("brace", brace_parse(input, cursor))

TryFunction == Try("function", function_parse(input, cursor))

TrySimple == Try("simple", simple_parse(input, cursor))

\* parse is called on a line with the cursor somewhere in it.
ParseInit ==
    /\ input \in Lines
    /\ start \in 0..Len(input)
    /\ cursor = start
    /\ parsePc = ParserOrder[1]
    /\ result = "none"
    /\ args = <<>>
    /\ tried = <<>>

ParseNext ==
    \/ TryIf
    \/ TryWhile
    \/ TryCase
    \/ TryParen
    \/ TryDoubleParen
    \/ TryBrace
    \/ TryFunction
    \/ TrySimple

\* No line is being parsed.
ParseIdle ==
    /\ input = <<>>
    /\ start = 0
    /\ cursor = 0
    /\ parsePc = "done"
    /\ result = "none"
    /\ args = <<>>
    /\ tried = <<>>

\* No command is being executed: a lone default node, not yet handed to exec.
ExecIdle ==
    /\ ExecInit
    /\ kind = [n \in Nodes |-> "default"]

\* ------------------------------------------------------ main: the loop

\* main, line 29: prompt().
MainPrompt ==
    /\ mainPc = "prompt"
    /\ mainPc' = "read"
    /\ UNCHANGED <<execVars, parseVars, editVars>>

\* main, lines 30-31: read_line() returns a line, which is handed to
\* parser::top_level_element: the dispatcher is started at the head of the line.
MainReadLine ==
    /\ mainPc = "read"
    /\ \E line \in Lines : input' = line
    /\ start' = 0
    /\ cursor' = 0
    /\ parsePc' = ParserOrder[1]
    /\ result' = "none"
    /\ args' = <<>>
    /\ tried' = <<>>
    /\ mainPc' = "parse"
    /\ UNCHANGED <<execVars, editVars>>

\* read_line, lines 21-23: reading standard input fails and expect panics.
MainReadErr ==
    /\ mainPc = "read"
    /\ mainPc' = "panic_read"
    /\ UNCHANGED <<execVars, parseVars, editVars>>

\* main, line 32: Some(ans) => ans.exec(); the loop goes round, and the line
\* and the node of this round are dropped.
MainSome ==
    /\ mainPc = "parse"
    /\ parsePc = "done"
    /\ result # "none"
    /\ mainPc' = "prompt"
    /\ input' = <<>>
    /\ start' = 0
    /\ cursor' = 0
    /\ result' = "none"
    /\ args' = <<>>
    /\ tried' = <<>>
    /\ UNCHANGED parsePc
    /\ UNCHANGED <<execVars, editVars>>

\* main, line 33: None => panic!("").
MainNone ==
    /\ mainPc = "parse"
    /\ parsePc = "done"
    /\ result = "none"
    /\ mainPc' = "panic_parse"
    /\ UNCHANGED <<execVars, parseVars, editVars>>

\* main is about to print its first prompt.
MainInit == mainPc = "prompt"

MainNext ==
    \/ MainPrompt
    \/ MainReadLine
    \/ MainReadErr
    \/ TryIf
    \/ TryWhile
    \/ TryCase
    \/ TryParen
    \/ TryDoubleParen
    \/ TryBrace
    \/ TryFunction
    \/ TrySimple
    \/ MainSome
    \/ MainNone

\* ------------------------------------------- line editor: the Writer

\* The characters a key can type.
EditChars == {"a", "b"}

Strings == UNION {[1..k -> EditChars] : k \in 0..MaxChars}

\* What core.history can hold: lines that were accepted earlier.
Histories == UNION {[1..k -> Strings \ {<<>>}] : k \in 0..MaxHist}

\* The lines of ~/.bash_history, oldest first.
FileHistory == << <<"b">>, <<"a", "b">> >>

\* Vec::remove(i), for an index within the vector.
VecRemove(v, i) == SubSeq(v, 1, i) \o SubSeq(v, i + 2, Len(v))

\* Vec::insert(i, c), for an index within the vector or at its end.
VecInsert(v, i, c) == SubSeq(v, 1, i) \o <<c>> \o SubSeq(v, i + 1, Len(v))

\* Writer::new(hist_len, left_shift)
Writer_new(hist_len) ==
    [chars |-> <<>>, fold_points |-> <<>>, ch_ptr |-> 0, hist_ptr |-> hist_len,
     panic |-> FALSE]

\* char_to_width, for the narrow characters of EditChars.
char_to_width(c) == 1

\* The loop of calculate_fold_points over the characters from index i on.
RECURSIVE fold_loop(_, _, _, _, _)
fold_loop(chars, i, sum_length, shift, acc) ==
    IF i >= Len(chars) THEN acc
    ELSE LET sum == sum_length + char_to_width(chars[i + 1])
         IN  IF TermWidth < sum + shift
             THEN fold_loop(chars, i + 1, char_to_width(chars[i + 1]), 0, Append(acc, i))
             ELSE fold_loop(chars, i + 1, sum, shift, acc)

calculate_fold_points(w) ==
    [w EXCEPT !.fold_points = fold_loop(w.chars, 0, 0, LeftShift, <<>>)]

\* ch_ptr_to_multiline_origin: <<x_from, y>>, from the fold points before ch_ptr.
ch_ptr_to_multiline_origin(w) ==
    LET fp == w.fold_points
        n  == Cardinality({k \in 1..Len(fp) : \A j \in 1..k : w.ch_ptr > fp[j]})
    IN  <<IF n = 0 THEN 0 ELSE fp[n], n>>

\* The slice chars[org_x..ch_ptr] of move_cursor and rewrite_multi_line: it
\* panics when it is out of range.
origin_slice(w) ==
    LET org_x == ch_ptr_to_multiline_origin(w)[1]
    IN  [w EXCEPT !.panic = @ \/ org_x > w.ch_ptr \/ w.ch_ptr > Len(w.chars)]

\* A slip: the pointer is not held back at the end of the buffer.
move_char_ptr_NoUpperClamp(w, inc) ==
    LET pos == w.ch_ptr + inc
    IN  [w EXCEPT !.ch_ptr = IF pos < 0 THEN 0 ELSE pos]

move_char_ptr(w, inc) ==
    LET pos == w.ch_ptr + inc
    IN  [w EXCEPT !.ch_ptr = IF pos < 0 THEN 0
                             ELSE IF pos > Len(w.chars) THEN Len(w.chars)
                             ELSE pos]

move_cursor_to_head(w) == [w EXCEPT !.ch_ptr = 0]

move_cursor_to_tail(w) == [w EXCEPT !.ch_ptr = Len(w.chars)]

move_cursor(w, inc) == origin_slice(move_char_ptr(w, inc))

rewrite_multi_line(w) == origin_slice(w)

\* Writer::remove; chars.remove(ch_ptr) panics when ch_ptr is no index of chars.
remove(w) ==
    IF Len(w.chars) = 0 THEN w
    ELSE LET w1 == move_char_ptr(w, -1)
         IN  IF w1.ch_ptr >= Len(w1.chars)
             THEN [w1 EXCEPT !.panic = TRUE]
             ELSE calculate_fold_points(
                      rewrite_multi_line([w1 EXCEPT !.chars = VecRemove(@, w1.ch_ptr)]))

\* A slip: in the middle of the line the cursor is left at the end of the line.
insert_CursorAtEnd(w, c) ==
    IF w.ch_ptr >= Len(w.chars)
    THEN calculate_fold_points(
             move_char_ptr([w EXCEPT !.chars = VecInsert(@, w.ch_ptr, c)], 1))
    ELSE LET remain == <<c>> \o SubSeq(w.chars, w.ch_ptr + 1, Len(w.chars))
             w1 == [w EXCEPT !.chars = SubSeq(w.chars, 1, w.ch_ptr) \o remain]
         IN  calculate_fold_points(move_char_ptr(w1, Len(remain)))

\* Writer::insert; chars.insert(ch_ptr, c) and chars[ch_ptr..] panic when ch_ptr
\* is beyond the end of chars.
insert(w, c) ==
    IF w.ch_ptr = Len(w.chars)
    THEN calculate_fold_points(
             move_char_ptr([w EXCEPT !.chars = VecInsert(@, w.ch_ptr, c)], 1))
    ELSE IF w.ch_ptr > Len(w.chars)
    THEN [w EXCEPT !.panic = TRUE]
    ELSE LET remain == <<c>> \o SubSeq(w.chars, w.ch_ptr + 1, Len(w.chars))
             w1 == [w EXCEPT !.chars = SubSeq(w.chars, 1, w.ch_ptr) \o remain]
             w2 == calculate_fold_points(move_char_ptr(w1, Len(remain)))
         IN  move_cursor(w2, -Len(remain) + 1)

\* The loop of insert_multi: push the character, move the pointer by one.
RECURSIVE push_all(_, _)
push_all(w, s) ==
    IF s = <<>> THEN w
    ELSE push_all(move_char_ptr([w EXCEPT !.chars = Append(@, Head(s))], 1), Tail(s))

insert_multi(w, s) == rewrite_multi_line(calculate_fold_points(push_all(w, s)))

\* call_history_from_file: the line of the history file that is -hist_ptr - 1
\* lines from its end, or the empty string when the file cannot be opened or is
\* too short (HOME is taken to be defined).
call_history_from_file(hist_ptr) ==
    LET pos == -hist_ptr - 1
    IN  {<<>>} \cup (IF pos < Len(FileHistory)
                     THEN {FileHistory[Len(FileHistory) - pos]} ELSE {})

\* What call_history can get from the file: it asks only below 0, line 120.
FromFile(hist_ptr) ==
    IF hist_ptr < 0 THEN call_history_from_file(hist_ptr) ELSE {<<>>}

\* A slip: hist_ptr is not set back to the length of the history.
call_history_NoClamp(w, inc, hist, from_file) ==
    LET hp == w.hist_ptr + inc
        h  == IF hp < 0 THEN from_file
              ELSE IF hp < Len(hist) THEN hist[hp + 1]
              ELSE <<>>
    IN  calculate_fold_points([w EXCEPT !.hist_ptr = hp, !.chars = h, !.ch_ptr = Len(h)])

\* Writer::call_history; from_file is what call_history_from_file returns.
call_history(w, inc, hist, from_file) ==
    LET hp == w.hist_ptr + inc
        h  == IF hp < 0 THEN from_file
              ELSE IF hp < Len(hist) THEN hist[hp + 1]
              ELSE <<>>
        hp2 == IF hp < 0 \/ hp < Len(hist) THEN hp ELSE Len(hist)
    IN  calculate_fold_points([w EXCEPT !.hist_ptr = hp2, !.chars = h, !.ch_ptr = Len(h)])

\* command_completion and file_completion: what was found to complete the last
\* word is appended to the line with insert_multi.
completion(w, found) == insert_multi(w, found)

\* Writer::tab_completion: with 1 the completion is performed, with more the
\* candidates are shown and the line stays as it is; the command branch and the
\* file branch do not differ in this.
tab_completion(w, tab_arg, found) ==
    IF tab_arg = 1 THEN completion(w, found) ELSE w

\* A slip: the counter is never set back to 0.
next_tab_num_NoReset(is_tab, n) == IF is_tab THEN n + 1 ELSE n

\* read_line_terminal, lines 399-403: the counter after a key.
next_tab_num(is_tab, n) == IF is_tab THEN n + 1 ELSE 0

\* ------------------------------------- line editor: read_line_terminal

NoReturn == [kind |-> "pending", line |-> <<>>]

EditFrame == UNCHANGED <<execVars, parseVars, mainVars>>

\* read_line_terminal is called, lines 371-372.
StartCall ==
    /\ edPc \in {"idle", "returned"}
    /\ Len(history) <= MaxHist
    /\ edPc' = "keys"
    /\ writer' = Writer_new(Len(history))
    /\ tab_num' = 0
    /\ tabArg' = 0
    /\ lastWasTab' = FALSE
    /\ ret' = NoReturn
    /\ histAtCall' = history
    /\ UNCHANGED history
    /\ EditFrame

\* One round of the loop over the keys for a key that is no Tab: the arm of the
\* match has made w of the Writer, then lines 399-403.
Key(w) ==
    /\ edPc = "keys"
    /\ writer' = w
    /\ edPc' = IF w.panic THEN "panicked" ELSE "keys"
    /\ tab_num' = next_tab_num(FALSE, tab_num)
    /\ tabArg' = 0
    /\ lastWasTab' = FALSE
    /\ UNCHANGED <<history, histAtCall, ret>>
    /\ EditFrame

\* line 376: Ctrl-A.
KeyCtrlA == Key(move_cursor_to_head(writer))

\* lines 377 and 391: Ctrl-B, Left.
KeyLeft == Key(move_cursor(writer, -1))

\* line 383: Ctrl-E.
KeyCtrlE == Key(move_cursor_to_tail(writer))

\* lines 384 and 392: Ctrl-F, Right.
KeyRight == Key(move_cursor(writer, 1))

\* line 389: Up.
KeyUp ==
    /\ writer.hist_ptr > -MaxFile
    /\ \E from_file \in FromFile(writer.hist_ptr - 1) :
           Key(call_history(writer, -1, history, from_file))

\* line 390: Down.
KeyDown ==
    \E from_file \in FromFile(writer.hist_ptr + 1) :
        Key(call_history(writer, 1, history, from_file))

\* line 393: Backspace.
KeyBackspace == Key(remove(writer))

\* line 395: any other character.
KeyChar ==
    /\ Len(writer.chars) < MaxChars
    /\ \E c \in EditChars : Key(insert(writer, c))

\* line 396: any other key.
KeyOther == Key(writer)

\* line 394, then lines 399-403: Tab.
KeyTab ==
    /\ edPc = "keys"
    /\ tab_num < MaxTabs
    /\ \E found \in Strings :
           /\ Len(writer.chars) + Len(found) <= MaxChars
           /\ LET w == tab_completion(writer, tab_num + 1, found)
              IN  /\ writer' = w
                  /\ edPc' = IF w.panic THEN "panicked" ELSE "keys"
    /\ tabArg' = tab_num + 1
    /\ tab_num' = next_tab_num(TRUE, tab_num)
    /\ lastWasTab' = TRUE
    /\ UNCHANGED <<history, histAtCall, ret>>
    /\ EditFrame

\* lines 378-382: Ctrl-C.
KeyCtrlC ==
    /\ edPc = "keys"
    /\ writer' = [writer EXCEPT !.chars = <<>>]
    /\ ret' = [kind |-> "None", line |-> <<>>]
    /\ edPc' = "returned"
    /\ UNCHANGED <<history, histAtCall, tab_num, tabArg, lastWasTab>>
    /\ EditFrame

\* A slip: the line is pushed to the history even when it is empty.
KeyEnter_AlwaysPush ==
    /\ edPc = "keys"
    /\ history' = Append(history, writer.chars)
    /\ ret' = [kind |-> "Some", line |-> writer.chars \o <<"\n">>]
    /\ edPc' = "returned"
    /\ UNCHANGED <<histAtCall, writer, tab_num, tabArg, lastWasTab>>
    /\ EditFrame

\* lines 385-388 and 406-410: Enter.
KeyEnter ==
    /\ edPc = "keys"
    /\ history' = IF Len(writer.chars) # 0 THEN Append(history, writer.chars) ELSE history
    /\ ret' = [kind |-> "Some", line |-> writer.chars \o <<"\n">>]
    /\ edPc' = "returned"
    /\ UNCHANGED <<histAtCall, writer, tab_num, tabArg, lastWasTab>>
    /\ EditFrame

\* The shell is about to call read_line_terminal; core.history holds the lines
\* accepted so far.
EditInit ==
    /\ history \in Histories
    /\ histAtCall = history
    /\ edPc = "idle"
    /\ writer = Writer_new(Len(history))
    /\ tab_num = 0
    /\ tabArg = 0
    /\ lastWasTab = FALSE
    /\ ret = NoReturn

EditNext ==
    \/ StartCall
    \/ KeyCtrlA
    \/ KeyLeft
    \/ KeyCtrlE
    \/ KeyRight
    \/ KeyUp
    \/ KeyDown
    \/ KeyBackspace
    \/ KeyChar
    \/ KeyOther
    \/ KeyTab
    \/ KeyCtrlC
    \/ KeyEnter

\* read_line_terminal is not in use.
EditIdle ==
    /\ EditInit
    /\ history = <<>>

\* main is not running.
MainIdle == mainPc = "idle"

\* The caller is about to hand its nodes to exec; no line is being parsed.
InitExec == ExecInit /\ ParseIdle /\ MainIdle /\ EditIdle

\* parse is called on a line; no command is being executed.
InitParse == ParseInit /\ ExecIdle /\ MainIdle /\ EditIdle

\* main starts; nothing has been read or executed yet.
InitMain == MainInit /\ ParseIdle /\ ExecIdle /\ EditIdle

\* read_line_terminal is about to be called; nothing is parsed or executed.
InitEdit == EditInit /\ ParseIdle /\ ExecIdle /\ MainIdle

\* The line editor, over any number of calls of read_line_terminal.
SpecEdit == InitEdit /\ [][EditNext]_vars

\* The interactive loop of main, with the dispatcher at work on each line.
SpecMain == InitMain /\ [][MainNext]_vars

\* The exec protocol on its own.
SpecExec == InitExec /\ [][ExecNext]_vars

\* The parse dispatcher on its own.
SpecParse == InitParse /\ [][ParseNext]_vars

\* ------------------------------------------------------ exec: the claims

Range(s) == {s[i] : i \in 1..Len(s)}

IsPrefix(s, t) == Len(s) <= Len(t) /\ SubSeq(t, 1, Len(s)) = s

\* How often the shell itself has called `method` on node n inside exec.
Calls(method, n) ==
    Cardinality({i \in 1..Len(shellLog) : shellLog[i] = <<method, n>>})

Forked(n) == proc[n].pc # "none"

Terminated(n) == proc[n].pc \in {"exited", "panicked"}

\* C1: for a node whose no_connection() is true, exec never forks: the node has
\* no child process and no pid, and once exec has returned exec_elems has run
\* exactly once in the calling process (and not at all before).
C1_NoForkWithoutConnection ==
    \A n \in Nodes :
        no_connection(n) =>
            /\ ~Forked(n)
            /\ Calls("fork", n) = 0
            /\ get_pid(n) = NoPid
            /\ Calls("exec_elems", n) = (IF returned[n] THEN 1 ELSE 0)

\* A lone variant has been executed in-process after an earlier node was forked.
C1_Witness ==
    \E n, m \in Nodes :
        /\ kind[n] = "plain" /\ returned[n]
        /\ Calls("exec_elems", n) = 1
        /\ Forked(m)

\* C2: a forked child takes its steps in the order set_signals, set_group,
\* set_child_io, exec_elems, close, exit: what it has done so far is always a
\* prefix of that order (or of the order of a failure path, which parts from it
\* only at set_child_io or at close), a child that has exited through line 80
\* has skipped none of them, and a child about to run exec_elems has the default
\* signal dispositions, has been through set_group and has wired its descriptors.
C2_ChildStepOrder ==
    \A n \in Nodes :
        /\ \/ IsPrefix(proc[n].trace, ChildOrder)
           \/ IsPrefix(proc[n].trace, ChildErrOrder)
           \/ proc[n].trace = SubSeq(ChildOrder, 1, 4) \o <<"close_err">>
        /\ "exit" \in Range(proc[n].trace) => proc[n].trace = ChildOrder
        /\ (proc[n].pc = "exec_elems" \/ "exec_elems" \in Range(proc[n].trace)) =>
               /\ SubSeq(proc[n].trace, 1, 3) = SubSeq(ChildOrder, 1, 3)
               /\ proc[n].sigDefault

\* A child has gone through all six steps.
C2_Witness ==
    \E n \in Nodes : proc[n].pc = "exited" /\ proc[n].trace = ChildOrder

\* The steps of child n after its set_child_io has failed.
FailureStep(n) ==
    /\ proc[n].pc \in {"set_child_io", "eprintln", "exit1"}
    /\ proc'[n].pc \in {"eprintln", "exit1", "exited"}
    /\ proc'[n].pc # proc[n].pc

\* C3: a child whose set_child_io fails never runs exec_elems and exits with
\* status 1 (an ordinary exit, not a panic); the shell has then still recorded
\* that child's pid and nothing else; and no step of the failing child changes
\* anything in the shell or in a sibling process.
C3_IoFailureIsLocal ==
    /\ [](\A n \in Nodes :
            "set_child_io_err" \in Range(proc[n].trace) =>
                /\ "exec_elems" \notin Range(proc[n].trace)
                /\ proc[n].pc \in {"eprintln", "exit1", "exited"}
                /\ proc[n].pc = "exited" => proc[n].how = "exit" /\ proc[n].code = 1
                /\ returned[n] => get_pid(n) = proc[n].pid)
    /\ [][\A n \in Nodes :
            FailureStep(n) =>
                /\ UNCHANGED <<kind, cur, shell, shellStatus, pid, returned, shellLog, nextPid>>
                /\ \A m \in Nodes \ {n} : proc'[m] = proc[m]]_vars

\* One child has exited with 1 after a failed set_child_io while a sibling has
\* run its body and exited, and the shell has returned from both execs.
C3_Witness ==
    \E n, m \in Nodes :
        /\ n # m
        /\ proc[n].pc = "exited" /\ proc[n].trace = ChildErrOrder /\ proc[n].code = 1
        /\ proc[m].pc = "exited" /\ proc[m].trace = ChildOrder
        /\ returned[n] /\ returned[m] /\ shell = "running"

\* C4 as stated: every forked child whose set_child_io succeeded and that has
\* terminated has exited with the value of "?" left by exec_elems.
C4_Original ==
    \A n \in Nodes :
        ("set_child_io" \in Range(proc[n].trace) /\ Terminated(n)) =>
            proc[n].how = "exit" /\ proc[n].code = proc[n].status

\* C4, amended: a forked child whose set_child_io succeeds and whose close(1)
\* succeeds exits with the value "?" holds when exec_elems finishes; if close(1)
\* fails the child dies of the panic of line 79 instead; either way the child
\* never goes on in the caller's code.
C4_ExitStatusAfterClose ==
    \A n \in Nodes :
        "set_child_io" \in Range(proc[n].trace) =>
            /\ proc[n].pc \in {"exec_elems", "close", "exit", "exited", "panicked"}
            /\ proc[n].pc = "exited" =>
                   /\ "close" \in Range(proc[n].trace)
                   /\ proc[n].how = "exit"
                   /\ proc[n].code = proc[n].status
            /\ proc[n].pc = "panicked" =>
                   /\ "close_err" \in Range(proc[n].trace)
                   /\ proc[n].how = "panic"

\* A child has exited with a non-zero status that its own exec_elems left, while
\* the shell's "?" differs from it.
C4_Witness ==
    \E n \in Nodes :
        /\ proc[n].pc = "exited" /\ proc[n].trace = ChildOrder
        /\ proc[n].code = MaxStatus /\ shellStatus # proc[n].code

C6_ParentOnlyRecordsPid ==
    \A n \in Nodes :
        ~no_connection(n) =>
            /\ \A i \in 1..Len(shellLog) :
                   shellLog[i][2] = n => shellLog[i][1] \in {"fork", "set_pid"}
            /\ (shell = "forked" /\ cur = n) => ENABLED ParentBranch
            /\ returned[n] => Calls("set_pid", n) = 1

\* exec has returned in the shell while the child has not taken its first step.
C6_Witness ==
    \E n \in Nodes :
        returned[n] /\ get_pid(n) = proc[n].pid /\ proc[n].pc = "set_signals"

\* C7 as stated: every member of the pipeline that has got as far as exec_elems
\* is in the process group the leader establishes, the leader's own pid.
C7_Original ==
    \A n \in Nodes :
        (kind[n] = "piped" /\ proc[n].pc \in {"exec_elems", "close", "exit", "exited", "panicked"}) =>
            proc[n].pgid = proc[Leader].pid

\* C12: once fork has failed the shell is aborted for good: for the node whose
\* fork failed fork was called once, exec_elems was not run, no pid was
\* recorded, no child exists and exec has not returned; and the aborted shell
\* takes no further step.
C12_ForkFailureIsFatal ==
    /\ [](shell = "aborted" =>
            /\ cur \in Nodes
            /\ Calls("fork", cur) = 1
            /\ Calls("exec_elems", cur) = 0
            /\ Calls("set_pid", cur) = 0
            /\ get_pid(cur) = NoPid
            /\ ~Forked(cur)
            /\ ~returned[cur])
    /\ [][shell = "aborted" =>
            UNCHANGED <<kind, cur, shell, shellStatus, pid, returned, shellLog, nextPid>>]_vars

\* The fork of the second member of a pipeline has failed while the child of
\* the first one is running.
C12_Witness ==
    /\ shell = "aborted"
    /\ cur > 1
    /\ \E m \in Nodes : m < cur /\ Forked(m) /\ get_pid(m) = proc[m].pid

\* ----------------------------------------------------- parse: the claims

TriedNames == [i \in 1..Len(tried) |-> tried[i][1]]

\* C8: parse invokes the variant parsers in the order if, while, case, paren,
\* double paren, brace, function definition, simple command; a parser is invoked
\* only after every earlier one has returned no match; the first match is what
\* parse returns and no parser is invoked after it; parse returns none only when
\* all eight have been tried.
C8_DispatchOrder ==
    /\ IsPrefix(TriedNames, ParserOrder)
    /\ \A i \in 1..(Len(tried) - 1) : ~tried[i][2]
    /\ (Len(tried) > 0 /\ tried[Len(tried)][2]) =>
           result = tried[Len(tried)][1] /\ parsePc = "done"
    /\ result # "none" =>
           /\ parsePc = "done"
           /\ tried[Len(tried)] = <<result, TRUE>>
    /\ (parsePc = "done" /\ result = "none") => TriedNames = ParserOrder
    /\ parsePc # "done" => parsePc = ParserOrder[Len(tried) + 1]

\* The simple-command parser has matched after the seven others found no match.
C8_Witness ==
    /\ parsePc = "done" /\ result = "simple"
    /\ Len(tried) = 8
    /\ cursor > start

\* C9 as stated: for a line that begins with the `if` keyword, parse never
\* returns a node made by the simple-command parser.
C9_Original ==
    (parsePc = "done" /\ start < Len(input) /\ input[start + 1] = "if") =>
        result # "simple"

PlainLine ==
    /\ Len(input) > 0
    /\ start = 0
    /\ \A i \in 1..Len(input) : input[i] \in PlainWords

C11_Original == mainPc # "panic_parse"

\* ------------------------------------------------ line editor: claims

\* A key of the loop that is no Tab and after which the loop goes on.
NonTabKey ==
    \/ KeyCtrlA
    \/ KeyLeft
    \/ KeyCtrlE
    \/ KeyRight
    \/ KeyUp
    \/ KeyDown
    \/ KeyBackspace
    \/ KeyChar
    \/ KeyOther

\* C14: while read_line_terminal reads keys, the character pointer stays within
\* the buffer, 0 <= ch_ptr <= chars.len(), and no key makes an index or a slice
\* of the buffer go out of range.
C14_PointerWithinBuffer ==
    /\ edPc # "panicked"
    /\ ~writer.panic
    /\ edPc = "keys" => (0 <= writer.ch_ptr /\ writer.ch_ptr <= Len(writer.chars))

\* The cursor is at the end of a full buffer that was typed, where one more
\* move to the right must be held back.
C14_Witness ==
    /\ edPc = "keys"
    /\ Len(writer.chars) = MaxChars
    /\ writer.ch_ptr = Len(writer.chars)
    /\ writer.hist_ptr = Len(history)
    /\ ENABLED KeyRight

\* C15 as stated: Backspace deletes the character before the cursor and moves
\* the cursor one back; with an empty buffer or the cursor at the start of the
\* line it changes neither the buffer nor the cursor.
C15_Original ==
    [][KeyBackspace =>
          IF Len(writer.chars) = 0 \/ writer.ch_ptr = 0
          THEN /\ writer'.chars = writer.chars
               /\ writer'.ch_ptr = writer.ch_ptr
          ELSE /\ writer'.chars = VecRemove(writer.chars, writer.ch_ptr - 1)
               /\ writer'.ch_ptr = writer.ch_ptr - 1]_vars

\* C16: for every buffer and every cursor position the editor reaches, insert(c)
\* puts c at index ch_ptr, keeps the other characters in their order and moves
\* ch_ptr forward by exactly 1; remove() right after it restores chars and ch_ptr.
C16_InsertThenRemove ==
    edPc = "keys" =>
        \A c \in EditChars :
            LET w == writer
                i == insert(w, c)
                r == remove(i)
            IN  /\ ~i.panic
                /\ Len(i.chars) = Len(w.chars) + 1
                /\ i.chars[w.ch_ptr + 1] = c
                /\ \A k \in 1..w.ch_ptr : i.chars[k] = w.chars[k]
                /\ \A k \in (w.ch_ptr + 1)..Len(w.chars) : i.chars[k + 1] = w.chars[k]
                /\ i.ch_ptr = w.ch_ptr + 1
                /\ ~r.panic
                /\ r.chars = w.chars
                /\ r.ch_ptr = w.ch_ptr

\* A typed line with the cursor between two different characters: an insert
\* here takes the branch for the middle of the line.
C16_Witness ==
    /\ edPc = "keys"
    /\ history = <<>>
    /\ writer.hist_ptr = 0
    /\ writer.chars = <<"a", "b">>
    /\ writer.ch_ptr = 1

\* What C17 says of the Writer right after a history key that moved by inc.
AfterHistoryKey(inc) ==
    LET w == writer'
    IN  /\ w.hist_ptr <= Len(history)
        /\ (0 <= w.hist_ptr /\ w.hist_ptr < Len(history)) =>
               w.chars = history[w.hist_ptr + 1]
        /\ writer.hist_ptr + inc >= Len(history) =>
               (w.hist_ptr = Len(history) /\ w.chars = <<>>)
        /\ w.ch_ptr = Len(w.chars)

\* C17: during a call hist_ptr never exceeds history.len(); right after Up or
\* Down the buffer is history[hist_ptr] when hist_ptr is within the history, a
\* move past the newest entry is clamped to history.len() with an empty
\* buffer, and ch_ptr is the length of the new buffer.
C17_HistoryPointer ==
    /\ [](edPc = "keys" => writer.hist_ptr <= Len(history))
    /\ [][KeyUp => AfterHistoryKey(-1)]_vars
    /\ [][KeyDown => AfterHistoryKey(1)]_vars

\* Up has recalled the newest entry of the history.
C17_Witness ==
    /\ edPc = "keys"
    /\ history # <<>>
    /\ writer.hist_ptr = Len(history) - 1
    /\ writer.chars = history[Len(history)]
    /\ writer.ch_ptr = Len(writer.chars)

\* C18: read_line_terminal changes core.history only when a line is accepted.
\* Enter returns the buffer followed by a newline and appends the buffer once,
\* if and only if it is not empty; Ctrl-C returns None and leaves the history
\* as it is; so the history never gets an empty entry and grows by at most one
\* entry in a call.
C18_HistoryOnlyOnAccept ==
    /\ [][KeyEnter =>
             /\ ret' = [kind |-> "Some", line |-> writer.chars \o <<"\n">>]
             /\ history' = IF writer.chars # <<>>
                           THEN Append(history, writer.chars) ELSE history]_vars
    /\ [][KeyCtrlC => (ret'.kind = "None" /\ history' = history)]_vars
    /\ [][history' # history => (edPc = "keys" /\ ret'.kind = "Some")]_vars
    /\ [](edPc = "keys" => history = histAtCall)
    /\ [](\A k \in 1..Len(history) : history[k] # <<>>)
    /\ [](/\ Len(history) <= Len(histAtCall) + 1
          /\ SubSeq(history, 1, Len(histAtCall)) = histAtCall)

\* A second line was accepted: the call found a history with an entry and
\* returned with one more.
C18_Witness ==
    /\ edPc = "returned"
    /\ ret.kind = "Some"
    /\ histAtCall # <<>>
    /\ writer.chars # <<>>
    /\ history = Append(histAtCall, writer.chars)

\* C19: the tab counter counts the Tab keys in a row. A Tab that does not
\* follow a Tab calls tab_completion with 1, the n-th Tab of a run calls it
\* with n, and a key that is no Tab sets the counter back to 0.
C19_TabCounter ==
    /\ [][KeyTab => tabArg' = (IF lastWasTab THEN tabArg + 1 ELSE 1)]_vars
    /\ [][KeyTab => tab_num' = tabArg']_vars
    /\ [][NonTabKey => tab_num' = 0]_vars
    /\ [](edPc = "keys" /\ ~lastWasTab => tab_num = 0)

\* The second Tab of a run has asked for the candidates.
C19_Witness ==
    /\ edPc = "keys"
    /\ lastWasTab
    /\ tabArg = 2
    /\ tab_num = 2

====
